---- MODULE Spec2Model ----
(***************************************************************************)
(* Model of the four repair scripts simple_fix.py, smart_fix.py,           *)
(* final_fix.py and final_precise_fix.py: the ordered regular-expression   *)
(* substitutions each applies to a file's text, the read / compare /       *)
(* truncate / write steps of the per-file handler, the resolution of the   *)
(* files to process, and the concluding os.system call of the verifier.    *)
(*                                                                         *)
(* Texts are TLA+ strings; a character is a string of length one.  The     *)
(* alphabet is ASCII: \w is [A-Za-z0-9_] and \s is space, tab, newline.    *)
(***************************************************************************)
EXTENDS Naturals, Sequences, FiniteSets, TLC

(***************************************************************************)
(* Regular expressions as used by the scripts: a concatenation of          *)
(* literals, single character classes and greedy * / + repetitions of a    *)
(* class, with capture groups around contiguous parts.                     *)
(***************************************************************************)
Lower == {"a","b","c","d","e","f","g","h","i","j","k","l","m",
          "n","o","p","q","r","s","t","u","v","w","x","y","z"}
Upper == {"A","B","C","D","E","F","G","H","I","J","K","L","M",
          "N","O","P","Q","R","S","T","U","V","W","X","Y","Z"}
Digit == {"0","1","2","3","4","5","6","7","8","9"}

\* character classes: a set of characters, or its complement
Word     == [neg |-> FALSE, set |-> Lower \cup Upper \cup Digit \cup {"_"}]
Space    == [neg |-> FALSE, set |-> {" ", "\t", "\n"}]
IdStart  == [neg |-> FALSE, set |-> Lower \cup Upper \cup {"_"}]
Not(chars) == [neg |-> TRUE, set |-> chars]

InClass(ch, cls) == (ch \in cls.set) # cls.neg

\* pattern constructors; a pattern is a sequence of atoms
Lit(s)     == <<[t |-> "lit", s |-> s]>>
One(cls)   == <<[t |-> "rep", c |-> cls, min |-> 1, many |-> FALSE]>>
Star(cls)  == <<[t |-> "rep", c |-> cls, min |-> 0, many |-> TRUE]>>
Plus(cls)  == <<[t |-> "rep", c |-> cls, min |-> 1, many |-> TRUE]>>
Grp(p)     == <<[t |-> "open"]>> \o p \o <<[t |-> "close"]>>

\* replacement template constructors: literal text and \1, \2, ... references
Txt(s) == <<[g |-> 0, s |-> s]>>
Ref(n) == <<[g |-> n, s |-> ""]>>

NoMatch == [ok |-> FALSE, end |-> 0, caps |-> << >>]

\* number of consecutive characters of text from pos on that are in cls,
\* at most limit
RECURSIVE Run(_, _, _, _)
Run(text, pos, cls, limit) ==
    IF limit = 0 \/ pos > Len(text) \/ ~InClass(SubSeq(text, pos, pos), cls)
    THEN 0
    ELSE 1 + Run(text, pos + 1, cls, limit - 1)

\* the backtracking matcher of re: atoms k.. of pat against text at pos;
\* a repetition takes the longest run first and gives characters back one
\* at a time until the rest of the pattern matches
RECURSIVE MatchAt(_, _, _, _, _, _)
RECURSIVE TryRep(_, _, _, _, _, _, _, _)
MatchAt(pat, k, text, pos, caps, gs) ==
    IF k > Len(pat) THEN [ok |-> TRUE, end |-> pos, caps |-> caps]
    ELSE LET a == pat[k] IN
      CASE a.t = "lit" ->
             IF pos + Len(a.s) - 1 <= Len(text)
                /\ SubSeq(text, pos, pos + Len(a.s) - 1) = a.s
             THEN MatchAt(pat, k + 1, text, pos + Len(a.s), caps, gs)
             ELSE NoMatch
        [] a.t = "open"  -> MatchAt(pat, k + 1, text, pos, caps, pos)
        [] a.t = "close" ->
             MatchAt(pat, k + 1, text, pos,
                     Append(caps, SubSeq(text, gs, pos - 1)), gs)
        [] a.t = "rep" ->
             TryRep(pat, k, text, pos, caps, gs,
                    Run(text, pos, a.c,
                        IF a.many THEN Len(text) ELSE 1),
                    a.min)
TryRep(pat, k, text, pos, caps, gs, n, min) ==
    IF n < min THEN NoMatch
    ELSE LET r == MatchAt(pat, k + 1, text, pos + n, caps, gs) IN
         IF r.ok THEN r
         ELSE IF n = 0 THEN NoMatch
         ELSE TryRep(pat, k, text, pos, caps, gs, n - 1, min)

\* the replacement template with the groups of one match filled in
RECURSIVE Expand(_, _, _)
Expand(repl, i, caps) ==
    IF i > Len(repl) THEN ""
    ELSE (IF repl[i].g = 0 THEN repl[i].s ELSE caps[repl[i].g])
         \o Expand(repl, i + 1, caps)

\* re.sub(pattern, replacement, text): every non-overlapping match, left
\* to right, is replaced; the scan resumes after each match.  (No pattern
\* of the scripts matches the empty string.)  Search finds the leftmost
\* match at or after pos.
RECURSIVE Search(_, _, _)
Search(pat, text, pos) ==
    IF pos > Len(text) THEN [ok |-> FALSE, start |-> pos, m |-> NoMatch]
    ELSE LET m == MatchAt(pat, 1, text, pos, << >>, pos) IN
         IF m.ok /\ m.end > pos THEN [ok |-> TRUE, start |-> pos, m |-> m]
         ELSE Search(pat, text, pos + 1)

RECURSIVE SubFrom(_, _, _, _)
SubFrom(pat, repl, text, pos) ==
    LET f == Search(pat, text, pos) IN
    IF ~f.ok THEN SubSeq(text, pos, Len(text))
    ELSE SubSeq(text, pos, f.start - 1) \o Expand(repl, 1, f.m.caps)
         \o SubFrom(pat, repl, text, f.m.end)

Sub(pat, repl, text) == SubFrom(pat, repl, text, 1)

Rule(pat, repl) == [pat |-> pat, repl |-> repl]

\* the rules of a list applied in order, each to the output of the one before
\* (the test on Len(out) makes TLC compute out before it goes on)
RECURSIVE ApplyFrom(_, _, _)
ApplyFrom(rules, i, text) ==
    IF i > Len(rules) THEN text
    ELSE LET out == Sub(rules[i].pat, rules[i].repl, text) IN
         IF Len(out) >= 0 THEN ApplyFrom(rules, i + 1, out) ELSE out

ApplyRules(rules, text) == ApplyFrom(rules, 1, text)

(***************************************************************************)
(* The rule tables, in the order the scripts apply them.                   *)
(***************************************************************************)

\* simple_fix.py, fix_file: the replacements list
replacements == <<
    \* line 19:  =,   ->   =>
    Rule(Lit(" =, "),
         Txt(" => ")),
    \* line 21: \(([^)]*) > ([^)]*)\)  ->  (\1, \2)
    Rule(Lit("(") \o Grp(Star(Not({")"}))) \o Lit(" > ") \o Grp(Star(Not({")"}))) \o Lit(")"),
         Txt("(") \o Ref(1) \o Txt(", ") \o Ref(2) \o Txt(")")),
    \* line 23: : ([^>]*) > ([a-zA-Z_][a-zA-Z0-9_]*:)  ->  : \1, \2
    Rule(Lit(": ") \o Grp(Star(Not({">"}))) \o Lit(" > ") \o Grp(One(IdStart) \o Star(Word) \o Lit(":")),
         Txt(": ") \o Ref(1) \o Txt(", ") \o Ref(2)),
    \* line 25: ' >   ->  ',
    Rule(Lit("' > "),
         Txt("', ")),
    \* line 26: " >   ->  ",
    Rule(Lit("\" > "),
         Txt("\", ")),
    \* line 28:  > }  ->  , }
    Rule(Lit(" > }"),
         Txt(", }")),
    \* line 29:  > ]  ->  , ]
    Rule(Lit(" > ]"),
         Txt(", ]")),
    \* line 30:  > \)  ->  , )
    Rule(Lit(" > )"),
         Txt(", )")),
    \* line 32: on\('([^']*)' >   ->  on('\1',
    Rule(Lit("on('") \o Grp(Star(Not({"'"}))) \o Lit("' > "),
         Txt("on('") \o Ref(1) \o Txt("', ")),
    \* line 33: handle\('([^']*)' >   ->  handle('\1',
    Rule(Lit("handle('") \o Grp(Star(Not({"'"}))) \o Lit("' > "),
         Txt("handle('") \o Ref(1) \o Txt("', ")),
    \* line 35: string >   ->  string,
    Rule(Lit("string > "),
         Txt("string, ")),
    \* line 36: number >   ->  number,
    Rule(Lit("number > "),
         Txt("number, ")),
    \* line 37: boolean >   ->  boolean,
    Rule(Lit("boolean > "),
         Txt("boolean, ")),
    \* line 38: unknown >   ->  unknown,
    Rule(Lit("unknown > "),
         Txt("unknown, ")),
    \* line 40: , =   ->   >=
    Rule(Lit(", = "),
         Txt(" >= ")),
    \* line 42: \[\] >  ->  [0] >
    Rule(Lit("[] >"),
         Txt("[0] >")),
    \* line 43: \[\]\)  ->  [0])
    Rule(Lit("[])"),
         Txt("[0])")),
    \* line 44: \[\];  ->  [0];
    Rule(Lit("[];"),
         Txt("[0];")),
    \* line 45: \[\] \|\|   ->  [0] ||
    Rule(Lit("[] || "),
         Txt("[0] || ")),
    \* line 46: \[\]\.value  ->  [0].value
    Rule(Lit("[].value"),
         Txt("[0].value")),
    \* line 48: Record<string > unknown>  ->  Record<string, unknown>
    Rule(Lit("Record<string > unknown>"),
         Txt("Record<string, unknown>")),
    \* line 50: : \(\): void =>  ->  : () =>
    Rule(Lit(": (): void =>"),
         Txt(": () => ")),
    \* line 51: get:, \(\): void =>  ->  get: () =>
    Rule(Lit("get:, (): void =>"),
         Txt("get: () => ")),
    \* line 52: set: newData => \{;  ->  set: newData => {
    Rule(Lit("set: newData => {;"),
         Txt("set: newData => {")),
    \* line 53: } > timeout  ->  }, timeout
    Rule(Lit("} > timeout"),
         Txt("}, timeout")),
    \* line 54: Platform\[0\]  ->  Platform[]
    Rule(Lit("Platform[0]"),
         Txt("Platform[]")),
    \* line 55: Song\[0\]  ->  Song[]
    Rule(Lit("Song[0]"),
         Txt("Song[]")),
    \* line 56: string\[0\]  ->  string[]
    Rule(Lit("string[0]"),
         Txt("string[]")),
    \* line 57: : number =,   ->  : number =
    Rule(Lit(": number =, "),
         Txt(": number = ")),
    \* line 58: : string =,   ->  : string =
    Rule(Lit(": string =, "),
         Txt(": string = ")),
    \* line 59: : boolean =,   ->  : boolean =
    Rule(Lit(": boolean =, "),
         Txt(": boolean = ")),
    \* line 60: watch\( \(\) =>   ->  watch(() =>
    Rule(Lit("watch( () => "),
         Txt("watch(() => ")),
    \* line 61: \{ data:,   ->  { data:
    Rule(Lit("{ data:, "),
         Txt("{ data: ")),
    \* line 62: >=,   ->  >=
    Rule(Lit(">=, "),
         Txt(">= ")),
    \* line 63: <=,   ->  <=
    Rule(Lit("<=, "),
         Txt("<= ")),
    \* line 64: >,   ->  >
    Rule(Lit(">, "),
         Txt("> ")),
    \* line 65: <,   ->  <
    Rule(Lit("<, "),
         Txt("< ")),
    \* line 66: \+,   ->  +
    Rule(Lit("+, "),
         Txt("+ ")),
    \* line 67: -,   ->  -
    Rule(Lit("-, "),
         Txt("- ")),
    \* line 68: \*,   ->  *
    Rule(Lit("*, "),
         Txt("* ")),
    \* line 69: /,   ->  /
    Rule(Lit("/, "),
         Txt("/ "))
>>

\* smart_fix.py, fix_typescript_syntax: its re.sub calls in order
TypescriptRules == <<
    \* line 12: \(([^)]*):,\s*([^)]*)\)  ->  (\1: \2)
    Rule(Lit("(") \o Grp(Star(Not({")"}))) \o Lit(":,") \o Star(Space) \o Grp(Star(Not({")"}))) \o Lit(")"),
         Txt("(") \o Ref(1) \o Txt(": ") \o Ref(2) \o Txt(")")),
    \* line 15: (\w+):,\s*(\w+)  ->  \1: \2
    Rule(Grp(Plus(Word)) \o Lit(":,") \o Star(Space) \o Grp(Plus(Word)),
         Ref(1) \o Txt(": ") \o Ref(2)),
    \* line 18: =>>  ->  =>
    Rule(Lit("=>>"),
         Txt("=>")),
    \* line 19: =>  ->  =>
    Rule(Lit("=>"),
         Txt("=>")),
    \* line 22: watch\(\s*\(\)\s*=>\s*([^)]+)\(\)  ->  watch(() => \1,
    Rule(Lit("watch(") \o Star(Space) \o Lit("()") \o Star(Space) \o Lit("=>") \o Star(Space) \o Grp(Plus(Not({")"}))) \o Lit("()"),
         Txt("watch(() => ") \o Ref(1) \o Txt(", ")),
    \* line 23: watch\(\s*([^)]+)\(\)\s*=>  ->  watch(\1,
    Rule(Lit("watch(") \o Star(Space) \o Grp(Plus(Not({")"}))) \o Lit("()") \o Star(Space) \o Lit("=>"),
         Txt("watch(") \o Ref(1) \o Txt(", ")),
    \* line 26: {\s*,  ->  {
    Rule(Lit("{") \o Star(Space) \o Lit(","),
         Txt("{")),
    \* line 27: :\s*\(\):\s*void\s*=>  ->  : () =>
    Rule(Lit(":") \o Star(Space) \o Lit("():") \o Star(Space) \o Lit("void") \o Star(Space) \o Lit("=>"),
         Txt(": () =>")),
    \* line 30: (\w+)\[0\]  ->  \1[]
    Rule(Grp(Plus(Word)) \o Lit("[0]"),
         Ref(1) \o Txt("[]")),
    \* line 33: >=>  ->  >=
    Rule(Lit(">=>"),
         Txt(">=")),
    \* line 34: <=>  ->  <=
    Rule(Lit("<=>"),
         Txt("<=")),
    \* line 37: i\s*\+=>  ->  i +=
    Rule(Lit("i") \o Star(Space) \o Lit("+=>"),
         Txt("i +=")),
    \* line 40: \(\s*([^,)]+),\s*([^)]+)\s*\)  ->  (\1, \2)
    Rule(Lit("(") \o Star(Space) \o Grp(Plus(Not({")", ","}))) \o Lit(",") \o Star(Space) \o Grp(Plus(Not({")"}))) \o Star(Space) \o Lit(")"),
         Txt("(") \o Ref(1) \o Txt(", ") \o Ref(2) \o Txt(")")),
    \* line 43: catch\s*\(\s*(\w+):,\s*(\w+)\s*\)  ->  catch (\1: \2)
    Rule(Lit("catch") \o Star(Space) \o Lit("(") \o Star(Space) \o Grp(Plus(Word)) \o Lit(":,") \o Star(Space) \o Grp(Plus(Word)) \o Star(Space) \o Lit(")"),
         Txt("catch (") \o Ref(1) \o Txt(": ") \o Ref(2) \o Txt(")")),
    \* line 46: inject<\([^)]*\|,\s*([^)]*)\)  ->  inject<(\1)
    Rule(Lit("inject<(") \o Star(Not({")"})) \o Lit("|,") \o Star(Space) \o Grp(Star(Not({")"}))) \o Lit(")"),
         Txt("inject<(") \o Ref(1) \o Txt(")")),
    \* line 49: \?\s*([^:]+)\s*:,\s*([^)]+)\)  ->  ? \1 : \2)
    Rule(Lit("?") \o Star(Space) \o Grp(Plus(Not({":"}))) \o Star(Space) \o Lit(":,") \o Star(Space) \o Grp(Plus(Not({")"}))) \o Lit(")"),
         Txt("? ") \o Ref(1) \o Txt(" : ") \o Ref(2) \o Txt(")")),
    \* line 52: const\s*{\s*([^:]+):,\s*([^}]+)\s*}  ->  const { \1: \2 }
    Rule(Lit("const") \o Star(Space) \o Lit("{") \o Star(Space) \o Grp(Plus(Not({":"}))) \o Lit(":,") \o Star(Space) \o Grp(Plus(Not({"}"}))) \o Star(Space) \o Lit("}"),
         Txt("const { ") \o Ref(1) \o Txt(": ") \o Ref(2) \o Txt(" }")),
    \* line 55: =\s*\[0\];  ->  = [];
    Rule(Lit("=") \o Star(Space) \o Lit("[0];"),
         Txt("= [];")),
    \* line 58: \):\s*(\w+)\s*=>  ->  ): \1 =>
    Rule(Lit("):") \o Star(Space) \o Grp(Plus(Word)) \o Star(Space) \o Lit("=>"),
         Txt("): ") \o Ref(1) \o Txt(" =>"))
>>

fix_typescript_syntax(content) == ApplyRules(TypescriptRules, content)

\* smart_fix.py, fix_vue_syntax
VueRules == <<
    \* line 66: watch\(\s*\(\)\s*=>\s*([^(]+)\(([^)]*)\)\s*=>  ->  watch(() => \1, (\2) =>
    Rule(Lit("watch(") \o Star(Space) \o Lit("()") \o Star(Space) \o Lit("=>") \o Star(Space) \o Grp(Plus(Not({"("}))) \o Lit("(") \o Grp(Star(Not({")"}))) \o Lit(")") \o Star(Space) \o Lit("=>"),
         Txt("watch(() => ") \o Ref(1) \o Txt(", (") \o Ref(2) \o Txt(") =>")),
    \* line 69: \(e:,\s*([^)]+)\):\s*void;  ->  (e: \1): void;
    Rule(Lit("(e:,") \o Star(Space) \o Grp(Plus(Not({")"}))) \o Lit("):") \o Star(Space) \o Lit("void;"),
         Txt("(e: ") \o Ref(1) \o Txt("): void;")),
    \* line 72: computed\(\(\)\s*=>\s*\(([^)]*)\s*\?\s*([^:]*)\s*:,\s*([^)]*)\)  ->  computed(() => (\1 ? \2 : \3)
    Rule(Lit("computed(()") \o Star(Space) \o Lit("=>") \o Star(Space) \o Lit("(") \o Grp(Star(Not({")"}))) \o Star(Space) \o Lit("?") \o Star(Space) \o Grp(Star(Not({":"}))) \o Star(Space) \o Lit(":,") \o Star(Space) \o Grp(Star(Not({")"}))) \o Lit(")"),
         Txt("computed(() => (") \o Ref(1) \o Txt(" ? ") \o Ref(2) \o Txt(" : ") \o Ref(3) \o Txt(")"))
>>

fix_vue_syntax(content) == ApplyRules(VueRules, content)

\* final_precise_fix.py, fix_specific_typescript_errors
SpecificRules == <<
    \* line 13: \(([^)]*):,\s*([^)]*)\)  ->  (\1: \2)
    Rule(Lit("(") \o Grp(Star(Not({")"}))) \o Lit(":,") \o Star(Space) \o Grp(Star(Not({")"}))) \o Lit(")"),
         Txt("(") \o Ref(1) \o Txt(": ") \o Ref(2) \o Txt(")")),
    \* line 16: (\w+):,\s*(\w+)  ->  \1: \2
    Rule(Grp(Plus(Word)) \o Lit(":,") \o Star(Space) \o Grp(Plus(Word)),
         Ref(1) \o Txt(": ") \o Ref(2)),
    \* line 20: watch\(\(\)\s*=>\s*([^,]+),\s*=>\s*\{  ->  watch(() => \1, () => {
    Rule(Lit("watch(()") \o Star(Space) \o Lit("=>") \o Star(Space) \o Grp(Plus(Not({","}))) \o Lit(",") \o Star(Space) \o Lit("=>") \o Star(Space) \o Lit("{"),
         Txt("watch(() => ") \o Ref(1) \o Txt(", () => {")),
    \* line 23: {\s*,  ->  {
    Rule(Lit("{") \o Star(Space) \o Lit(","),
         Txt("{")),
    \* line 24: ,\s*}  ->  }
    Rule(Lit(",") \o Star(Space) \o Lit("}"),
         Txt("}")),
    \* line 27: (\w+)\[\]\s*;  ->  \1[0];
    Rule(Grp(Plus(Word)) \o Lit("[]") \o Star(Space) \o Lit(";"),
         Ref(1) \o Txt("[0];")),
    \* line 28: (\w+)\[\]\.  ->  \1[0].
    Rule(Grp(Plus(Word)) \o Lit("[]."),
         Ref(1) \o Txt("[0].")),
    \* line 31: length,\s*0\)  ->  length > 0)
    Rule(Lit("length,") \o Star(Space) \o Lit("0)"),
         Txt("length > 0)")),
    \* line 34: \$\{(\w+)\[\]\.(\w+)\}  ->  ${\1[0].\2}
    Rule(Lit("${") \o Grp(Plus(Word)) \o Lit("[].") \o Grp(Plus(Word)) \o Lit("}"),
         Txt("${") \o Ref(1) \o Txt("[0].") \o Ref(2) \o Txt("}")),
    \* line 37: \):\s*(\w+)\s*=>  ->  ): \1 =>
    Rule(Lit("):") \o Star(Space) \o Grp(Plus(Word)) \o Star(Space) \o Lit("=>"),
         Txt("): ") \o Ref(1) \o Txt(" =>"))
>>

fix_specific_typescript_errors(content) == ApplyRules(SpecificRules, content)

\* the first rule of the block for cache.ts with > for >=
cache_rules_wrong_operator == <<
    Rule(Lit("if (cleanedSize, "),
         Txt("if (cleanedSize > ")),
    Rule(Lit("if (cleanedCount, "),
         Txt("if (cleanedCount > ")),
    Rule(Lit("const toDelete: string[] = [0];"),
         Txt("const toDelete: string[] = [];"))
>>

\* final_fix.py, fix_specific_errors: the block for src/main/modules/cache.ts
cache_rules == <<
    \* line 17: if \(cleanedSize,   ->  if (cleanedSize >=
    Rule(Lit("if (cleanedSize, "),
         Txt("if (cleanedSize >= ")),
    \* line 18: if \(cleanedCount,   ->  if (cleanedCount >
    Rule(Lit("if (cleanedCount, "),
         Txt("if (cleanedCount > ")),
    \* line 20: const toDelete: string\[\] = \[0\];  ->  const toDelete: string[] = [];
    Rule(Lit("const toDelete: string[] = [0];"),
         Txt("const toDelete: string[] = [];"))
>>

\* final_fix.py, fix_specific_errors: the block for src/main/modules/fileManager.ts
filemanager_rules == <<
    \* line 33: \}\[\] = \[0\];  ->  }[] = [];
    Rule(Lit("}[] = [0];"),
         Txt("}[] = [];")),
    \* line 34: const mergedLines: string\[\] = \[0\];  ->  const mergedLines: string[] = [];
    Rule(Lit("const mergedLines: string[] = [0];"),
         Txt("const mergedLines: string[] = [];")),
    \* line 36: as \{ name: string \}\[0\]  ->  as { name: string }[]
    Rule(Lit("as { name: string }[0]"),
         Txt("as { name: string }[]")),
    \* line 38: downloadStore\.get\('history', \[0\]\)  ->  downloadStore.get('history', [])
    Rule(Lit("downloadStore.get('history', [0])"),
         Txt("downloadStore.get('history', [])")),
    \* line 39: as Record<string, unknown>\[0\]  ->  as Record<string, unknown>[]
    Rule(Lit("as Record<string, unknown>[0]"),
         Txt("as Record<string, unknown>[]"))
>>

\* final_fix.py, fix_specific_errors: the block for src/main/modules/tray.ts
tray_rules == <<
    \* line 52: as MenuItemConstructorOptions\[0\]  ->  as MenuItemConstructorOptions[]
    Rule(Lit("as MenuItemConstructorOptions[0]"),
         Txt("as MenuItemConstructorOptions[]")),
    \* line 53: : \[0\]\) as MenuItemConstructorOptions  ->  : []) as MenuItemConstructorOptions[]
    Rule(Lit(": [0]) as MenuItemConstructorOptions"),
         Txt(": []) as MenuItemConstructorOptions[]"))
>>

\* final_fix.py, fix_specific_errors: the block for src/main/modules/window-size.ts
windowsize_rules == <<
    \* line 66: if \(scaleFactor,   ->  if (scaleFactor >
    Rule(Lit("if (scaleFactor, "),
         Txt("if (scaleFactor > ")),
    \* line 67: } else if \(scaleFactor,   ->  } else if (scaleFactor >
    Rule(Lit("} else if (scaleFactor, "),
         Txt("} else if (scaleFactor > "))
>>

\* final_fix.py, fix_specific_errors: the block for src/main/unblockMusic.ts
unblock_rules == <<
    \* line 80: as unknown\[0\]  ->  as unknown[]
    Rule(Lit("as unknown[0]"),
         Txt("as unknown[]"))
>>

\* final_fix.py, fix_specific_errors: the block for src/preload/index.ts
preload_rules == <<
    \* line 93: unknown\[0\]  ->  unknown[]
    Rule(Lit("unknown[0]"),
         Txt("unknown[]"))
>>

\* final_fix.py, fix_specific_errors: the block for src/renderer/types/api-responses.ts
apiresponses_rules == <<
    \* line 106: Artist\[0\]  ->  Artist[]
    Rule(Lit("Artist[0]"),
         Txt("Artist[]")),
    \* line 107: Album\[0\]  ->  Album[]
    Rule(Lit("Album[0]"),
         Txt("Album[]")),
    \* line 108: Playlist\[0\]  ->  Playlist[]
    Rule(Lit("Playlist[0]"),
         Txt("Playlist[]")),
    \* line 109: SongUrl\[0\]  ->  SongUrl[]
    Rule(Lit("SongUrl[0]"),
         Txt("SongUrl[]")),
    \* line 110: unknown\[0\]  ->  unknown[]
    Rule(Lit("unknown[0]"),
         Txt("unknown[]"))
>>

(***************************************************************************)
(* The buffer a script holds for a file after all of its rules.            *)
(***************************************************************************)
Variants == {"simple_fix", "smart_fix", "final_fix", "final_precise_fix"}

StartsWith(s, pre) == Len(pre) <= Len(s) /\ SubSeq(s, 1, Len(pre)) = pre
EndsWith(s, suf) ==
    Len(suf) <= Len(s) /\ SubSeq(s, Len(s) - Len(suf) + 1, Len(s)) = suf

cache_file        == "src/main/modules/cache.ts"
filemanager_file  == "src/main/modules/fileManager.ts"
tray_file         == "src/main/modules/tray.ts"
windowsize_file   == "src/main/modules/window-size.ts"
unblock_file      == "src/main/unblockMusic.ts"
preload_file      == "src/preload/index.ts"
apiresponses_file == "src/renderer/types/api-responses.ts"

\* final_fix.py: the files of fix_specific_errors, in the order of its blocks
specific_files ==
    <<cache_file, filemanager_file, tray_file, windowsize_file,
      unblock_file, preload_file, apiresponses_file>>

\* final_fix.py: the re.sub calls of the block of one file
BlockRules(file_path) ==
    CASE file_path = cache_file        -> cache_rules
      [] file_path = filemanager_file  -> filemanager_rules
      [] file_path = tray_file         -> tray_rules
      [] file_path = windowsize_file   -> windowsize_rules
      [] file_path = unblock_file      -> unblock_rules
      [] file_path = preload_file      -> preload_rules
      [] file_path = apiresponses_file -> apiresponses_rules

\* final_precise_fix.py, main: the explicit list
problem_files ==
    <<"src/main/lyric.ts", "src/main/modules/fileManager.ts",
      "src/main/modules/loginWindow.ts">>

\* the text of file_path after the rules of script v, from the text read
RepairedText(v, file_path, content) ==
    CASE v = "simple_fix" -> ApplyRules(replacements, content)
      [] v = "smart_fix" ->
           LET ts == fix_typescript_syntax(content) IN
           IF EndsWith(file_path, ".vue") THEN fix_vue_syntax(ts) ELSE ts
      [] v = "final_precise_fix" -> fix_specific_typescript_errors(content)
      [] v = "final_fix" -> ApplyRules(BlockRules(file_path), content)

(***************************************************************************)
(* The files a run works on.                                               *)
(***************************************************************************)
Range(s) == {s[i] : i \in DOMAIN s}

RECURSIVE Perms(_)
Perms(S) ==
    IF S = {} THEN {<< >>}
    ELSE UNION {{<<x>> \o s : s \in Perms(S \ {x})} : x \in S}

\* a glob pattern root/**/*ext
Pattern(root, ext) == [root |-> root, ext |-> ext]

\* simple_fix.py, main: patterns
simple_patterns ==
    <<Pattern("plugins/", ".ts"), Pattern("src/", ".ts"),
      Pattern("src/", ".vue"), Pattern("src/", ".d.ts")>>

\* smart_fix.py, main: patterns
smart_patterns ==
    <<Pattern("src/", ".ts"), Pattern("src/", ".vue"),
      Pattern("plugins/", ".ts")>>

\* glob.glob(pattern, recursive=True): the files on disk under the root
\* whose name ends as the pattern says, in the directory's order
glob(pattern, on_disk) ==
    CHOOSE s \in Perms({p \in on_disk : /\ StartsWith(p, pattern.root)
                                        /\ EndsWith(p, pattern.ext)}) : TRUE

\* files_to_fix after the loop of extend calls
RECURSIVE Extended(_, _, _)
Extended(patterns, i, on_disk) ==
    IF i > Len(patterns) THEN << >>
    ELSE glob(patterns[i], on_disk) \o Extended(patterns, i + 1, on_disk)

\* the list kept as it is, a path repeated for every pattern that matches it
ListAsIs(files) == {files}

\* list(set(files_to_fix)): the lists it may give (a set has no order)
ListOfSet(files) == Perms(Range(files))

\* the files the model's disk may hold, per script
GlobPool ==
    {"src/main/a.ts", "src/types/b.d.ts", "src/App.vue", "plugins/p.ts",
     "src/notes.md"}

Pool(v) ==
    CASE v \in {"simple_fix", "smart_fix"} -> GlobPool
      [] v = "final_fix"         -> Range(specific_files)
      [] v = "final_precise_fix" -> Range(problem_files)

(***************************************************************************)
(* Bounds and input texts.                                                 *)
(***************************************************************************)
MaxFiles  == 2   \* files on disk
MaxFaults == 1   \* files whose read or write fails in a run
MaxPasses == 2   \* applications of a rule list to one text

\* already-valid snippets
ValidSnippets ==
    {"const f = (x) => x;", "if (a > b) {}", "f(a, b)", "arr[0]", "[1, 2]"}

\* texts with malformations
Malformed ==
    {"(a > b > c)", "=>>>", "if (cleanedSize, 10) {",
     "const toDelete: string[] = [0];", "if (list.length, 0) {",
     "length, 0)"}

Corpus == ValidSnippets \cup Malformed

\* the contents of the files of a whole run: each script changes one of
\* them and leaves another as it is
RunTexts ==
    {"if (a > b) {}", "const toDelete: string[] = [0];",
     "if (list.length, 0) {"}

(***************************************************************************)
(* State.                                                                  *)
(***************************************************************************)
VARIABLES
    variant,           \* the script that runs
    exists,            \* the files on disk
    disk,              \* the text of each file on disk
    orig,              \* disk when the run started
    files_to_fix,      \* the files still to process, in order
    original_content,  \* per file read: the text read
    content,           \* per file read: the buffer after the rules
    fixed_count,       \* main's counter of repaired files
    report,            \* per file: the line printed about it
    calls,             \* per file: the times its handler was entered
    reads,             \* per file: the times it was opened for reading
    writes,            \* per file: the times it was opened for writing
    faulty,            \* the files whose read or write failed
    pc,                \* where the run is
    verifier,          \* the npm run typecheck subprocess
    exit_status,       \* the exit status of the script
    texts              \* a text and what each pass of a rule list made of it

vars == <<variant, exists, disk, orig, files_to_fix, original_content, content,
          fixed_count, report, calls, reads, writes, faulty, pc, verifier,
          exit_status, texts>>

env == <<variant, exists, orig, texts>>

Init ==
    /\ variant \in Variants
    /\ exists \in {S \in SUBSET Pool(variant) : Cardinality(S) <= MaxFiles}
    /\ disk \in [exists -> RunTexts]
    /\ orig = disk
    /\ files_to_fix = << >>
    /\ original_content = << >>
    /\ content = << >>
    /\ fixed_count = 0
    /\ report = [p \in Pool(variant) |-> "none"]
    /\ calls = [p \in Pool(variant) |-> 0]
    /\ reads = [p \in Pool(variant) |-> 0]
    /\ writes = [p \in Pool(variant) |-> 0]
    /\ faulty = {}
    /\ pc = "start"
    /\ verifier = "not_started"
    /\ exit_status = "running"
    /\ texts = << >>

Put(f, k, v) == [x \in DOMAIN f \cup {k} |-> IF x = k THEN v ELSE f[x]]

IsGlob == variant \in {"simple_fix", "smart_fix"}
Patterns == IF variant = "simple_fix" THEN simple_patterns ELSE smart_patterns

\* simple_fix.py / smart_fix.py, main: glob, extend, list(set(...))
ResolveGlob ==
    /\ pc = "start"
    /\ IsGlob
    /\ \E order \in ListOfSet(Extended(Patterns, 1, exists)) :
          files_to_fix' = order
    /\ pc' = "loop"
    /\ UNCHANGED <<env, disk, original_content, content, fixed_count, report,
                   calls, reads, writes, faulty, verifier, exit_status>>

\* final_fix.py / final_precise_fix.py: the hard-coded paths
ResolveExplicit ==
    /\ pc = "start"
    /\ ~IsGlob
    /\ files_to_fix' = IF variant = "final_fix" THEN specific_files
                       ELSE problem_files
    /\ pc' = "loop"
    /\ UNCHANGED <<env, disk, original_content, content, fixed_count, report,
                   calls, reads, writes, faulty, verifier, exit_status>>

Cur == Head(files_to_fix)
Looping == pc = "loop" /\ files_to_fix # << >>
HasFixFile == variant # "final_fix"

\* final_precise_fix.py, main: the else branch of os.path.exists
PathMissing ==
    /\ Looping
    /\ variant = "final_precise_fix"
    /\ Cur \notin exists
    /\ report' = [report EXCEPT ![Cur] = "missing"]
    /\ files_to_fix' = Tail(files_to_fix)
    /\ UNCHANGED <<env, disk, original_content, content, fixed_count, calls,
                   reads, writes, faulty, pc, verifier, exit_status>>

\* final_fix.py: a block whose os.path.exists is false does nothing
BlockSkipped ==
    /\ Looping
    /\ variant = "final_fix"
    /\ Cur \notin exists
    /\ files_to_fix' = Tail(files_to_fix)
    /\ UNCHANGED <<env, disk, original_content, content, fixed_count, report,
                   calls, reads, writes, faulty, pc, verifier, exit_status>>

MayFail == Cardinality(faulty) < MaxFaults

\* every script: with open(file_path, 'r') as f: content = f.read(), and the
\* re.sub calls on content
ReadFile ==
    /\ Looping /\ Cur \in exists
    /\ original_content' = Put(original_content, Cur, disk[Cur])
    /\ content' = Put(content, Cur, RepairedText(variant, Cur, disk[Cur]))
    /\ calls' = [calls EXCEPT ![Cur] = @ + 1]
    /\ reads' = [reads EXCEPT ![Cur] = @ + 1]
    /\ pc' = "fixed"
    /\ UNCHANGED <<env, disk, files_to_fix, fixed_count, report, writes,
                   faulty, verifier, exit_status>>

\* fix_file: open(file_path, 'r') or f.read() raises; the except branch
\* prints the failure and returns False
FixFileReadError ==
    /\ Looping /\ HasFixFile /\ Cur \in exists
    /\ MayFail
    /\ faulty' = faulty \cup {Cur}
    /\ calls' = [calls EXCEPT ![Cur] = @ + 1]
    /\ reads' = [reads EXCEPT ![Cur] = @ + 1]
    /\ report' = [report EXCEPT ![Cur] = "failed"]
    /\ files_to_fix' = Tail(files_to_fix)
    /\ UNCHANGED <<env, disk, original_content, content, fixed_count, writes,
                   pc, verifier, exit_status>>

Changed == content[Cur] # original_content[Cur]

\* fix_file: content equals original_content; returns False
\* (simple_fix prints that nothing was to repair, the others print nothing)
FixFileNoChange ==
    /\ pc = "fixed" /\ HasFixFile
    /\ ~Changed
    /\ report' = [report EXCEPT ![Cur] =
                    IF variant = "simple_fix" THEN "no_need" ELSE @]
    /\ files_to_fix' = Tail(files_to_fix)
    /\ pc' = "loop"
    /\ UNCHANGED <<env, disk, original_content, content, fixed_count, calls,
                   reads, writes, faulty, verifier, exit_status>>

\* fix_file: content differs and open(file_path, 'w') raises; the except
\* branch prints the failure and returns False
FixFileWriteError ==
    /\ pc = "fixed" /\ HasFixFile
    /\ Changed
    /\ MayFail
    /\ faulty' = faulty \cup {Cur}
    /\ report' = [report EXCEPT ![Cur] = "failed"]
    /\ files_to_fix' = Tail(files_to_fix)
    /\ pc' = "loop"
    /\ UNCHANGED <<env, disk, original_content, content, fixed_count, calls,
                   reads, writes, verifier, exit_status>>

\* fix_file: content differs; open(file_path, 'w') truncates the file
FixFileTruncate ==
    /\ pc = "fixed" /\ HasFixFile
    /\ Changed
    /\ disk' = [disk EXCEPT ![Cur] = ""]
    /\ writes' = [writes EXCEPT ![Cur] = @ + 1]
    /\ pc' = "writing"
    /\ UNCHANGED <<env, files_to_fix, original_content, content, fixed_count,
                   report, calls, reads, faulty, verifier, exit_status>>

\* fix_file: f.write(content), the file is closed, the repair is printed and
\* True returned; main adds one to fixed_count
FixFileWrite ==
    /\ pc = "writing" /\ HasFixFile
    /\ disk' = [disk EXCEPT ![Cur] = content[Cur]]
    /\ report' = [report EXCEPT ![Cur] = "repaired"]
    /\ fixed_count' = fixed_count + 1
    /\ files_to_fix' = Tail(files_to_fix)
    /\ pc' = "loop"
    /\ UNCHANGED <<env, original_content, content, calls, reads, writes,
                   faulty, verifier, exit_status>>

\* final_fix.py: the read of a block raises; nothing catches it
BlockReadError ==
    /\ Looping /\ variant = "final_fix" /\ Cur \in exists
    /\ MayFail
    /\ faulty' = faulty \cup {Cur}
    /\ calls' = [calls EXCEPT ![Cur] = @ + 1]
    /\ reads' = [reads EXCEPT ![Cur] = @ + 1]
    /\ pc' = "crashed"
    /\ exit_status' = "failure"
    /\ UNCHANGED <<env, disk, files_to_fix, original_content, content,
                   fixed_count, report, writes, verifier>>

\* final_fix.py: open(..., 'w') of a block raises; nothing catches it
BlockWriteError ==
    /\ pc = "fixed" /\ variant = "final_fix"
    /\ MayFail
    /\ faulty' = faulty \cup {Cur}
    /\ pc' = "crashed"
    /\ exit_status' = "failure"
    /\ UNCHANGED <<env, disk, files_to_fix, original_content, content,
                   fixed_count, report, calls, reads, writes, verifier>>

\* final_fix.py: a block opens the file for writing whatever its rules did
BlockTruncate ==
    /\ pc = "fixed" /\ variant = "final_fix"
    /\ disk' = [disk EXCEPT ![Cur] = ""]
    /\ writes' = [writes EXCEPT ![Cur] = @ + 1]
    /\ pc' = "writing"
    /\ UNCHANGED <<env, files_to_fix, original_content, content, fixed_count,
                   report, calls, reads, faulty, verifier, exit_status>>

\* final_fix.py: a block writes the buffer and prints the repair
BlockWrite ==
    /\ pc = "writing" /\ variant = "final_fix"
    /\ disk' = [disk EXCEPT ![Cur] = content[Cur]]
    /\ report' = [report EXCEPT ![Cur] = "repaired"]
    /\ files_to_fix' = Tail(files_to_fix)
    /\ pc' = "loop"
    /\ UNCHANGED <<env, original_content, content, fixed_count, calls, reads,
                   writes, faulty, verifier, exit_status>>

\* main: the summary is printed and os.system('npm run typecheck') called
RunTypecheck ==
    /\ pc = "loop" /\ files_to_fix = << >>
    /\ verifier' = "running"
    /\ pc' = "waiting"
    /\ UNCHANGED <<env, disk, files_to_fix, original_content, content,
                   fixed_count, report, calls, reads, writes, faulty,
                   exit_status>>

\* os.system returns (the subprocess ended, or the shell could not start
\* it); its value is dropped, main returns and the script exits with 0
TypecheckReturns ==
    /\ pc = "waiting"
    /\ verifier' \in {"exit_zero", "exit_nonzero", "not_found"}
    /\ pc' = "done"
    /\ exit_status' = "success"
    /\ UNCHANGED <<env, disk, files_to_fix, original_content, content,
                   fixed_count, report, calls, reads, writes, faulty>>

\* the process is killed (a signal, a power loss) wherever it is
Killed ==
    /\ pc \in {"start", "loop", "fixed", "writing", "waiting"}
    /\ pc' = "killed"
    /\ exit_status' = "failure"
    /\ UNCHANGED <<env, disk, files_to_fix, original_content, content,
                   fixed_count, report, calls, reads, writes, faulty,
                   verifier>>

\* the steps the interpreter takes by itself
Step ==
    \/ ResolveGlob
    \/ ResolveExplicit
    \/ PathMissing
    \/ BlockSkipped
    \/ ReadFile
    \/ FixFileReadError
    \/ FixFileNoChange
    \/ FixFileWriteError
    \/ FixFileTruncate
    \/ FixFileWrite
    \/ BlockReadError
    \/ BlockWriteError
    \/ BlockTruncate
    \/ BlockWrite
    \/ RunTypecheck

Next == Step \/ TypecheckReturns \/ Killed

Spec == Init /\ [][Next]_vars

\* the steps other than the read of a file
Control ==
    \/ ResolveGlob
    \/ ResolveExplicit
    \/ PathMissing
    \/ BlockSkipped
    \/ FixFileNoChange
    \/ FixFileTruncate
    \/ FixFileWrite
    \/ BlockTruncate
    \/ BlockWrite
    \/ RunTypecheck

\* the interpreter is sequential and always takes its next step: a step
\* that stays possible is taken.  Nothing makes the subprocess end, a kill
\* happen or an I/O call fail.  (The read of a file is left out of the
\* fairness condition: what is asked of this specification is what follows
\* the call of the verifier, where no step of the interpreter is possible.)
FairSpec == Spec /\ WF_vars(Control)

(***************************************************************************)
(* A rule list applied to one text, pass after pass.                       *)
(***************************************************************************)
RuleInit ==
    /\ variant \in Variants
    /\ exists \in {{p} : p \in Pool(variant)}
    /\ disk \in [exists -> Corpus]
    /\ orig = disk
    /\ files_to_fix = << >>
    /\ original_content = << >>
    /\ content = << >>
    /\ fixed_count = 0
    /\ report = [p \in Pool(variant) |-> "none"]
    /\ calls = [p \in Pool(variant) |-> 0]
    /\ reads = [p \in Pool(variant) |-> 0]
    /\ writes = [p \in Pool(variant) |-> 0]
    /\ faulty = {}
    /\ pc = "rules"
    /\ verifier = "not_started"
    /\ exit_status = "running"
    /\ texts = <<disk[CHOOSE p \in exists : TRUE]>>

File == CHOOSE p \in exists : TRUE

\* one more pass of the script's rules over the buffer
ApplyPass ==
    /\ pc = "rules"
    /\ Len(texts) <= MaxPasses
    /\ texts' = Append(texts, RepairedText(variant, File, texts[Len(texts)]))
    /\ UNCHANGED <<variant, exists, disk, orig, files_to_fix,
                   original_content, content, fixed_count, report, calls,
                   reads, writes, faulty, pc, verifier, exit_status>>

RuleNext == ApplyPass

RuleSpec == RuleInit /\ [][RuleNext]_vars

(***************************************************************************)
(* Properties.                                                             *)
(***************************************************************************)
\* the files a run is to process: the glob matches, or the listed paths
\* that are on disk
Targets ==
    IF IsGlob THEN Range(Extended(Patterns, 1, exists))
    ELSE Range(IF variant = "final_fix" THEN specific_files
               ELSE problem_files) \cap exists

Ended == pc \in {"done", "crashed"}

\* C1: an already-valid snippet comes out of the full rule list of
\* simple_fix, smart_fix and final_precise_fix as it went in.
NonOverreach ==
    (/\ pc = "rules"
     /\ Len(texts) >= 2
     /\ texts[1] \in ValidSnippets
     /\ variant \in {"simple_fix", "smart_fix", "final_precise_fix"})
    => texts[2] = texts[1]

\* C2: a second pass of a script's rule list over the result of the first
\* pass changes nothing.
Idempotence ==
    (pc = "rules" /\ Len(texts) >= 3) => texts[3] = texts[2]

\* C3: a file whose buffer after the rules equals the text read is not
\* opened for writing, keeps its content, and is not reported as repaired.
NoOpPreservation ==
    \A p \in DOMAIN content :
        content[p] = original_content[p]
        => /\ writes[p] = 0
           /\ disk[p] = orig[p]
           /\ report[p] # "repaired"

\* C4: with one file whose read or write fails, the run still goes through
\* every other file, reports exactly one failure and ends normally.
Isolation ==
    (Ended /\ Cardinality(faulty) = 1)
    => /\ pc = "done"
       /\ \A p \in Targets \ faulty : p \in DOMAIN content
       /\ Cardinality({p \in Pool(variant) : report[p] = "failed"}) = 1

\* C5: when the run is killed, wherever it was, every file on disk holds
\* its original text or its fully repaired text.
AtomicWrite ==
    pc = "killed"
    => \A p \in exists :
          \/ disk[p] = orig[p]
          \/ p \in DOMAIN content /\ disk[p] = content[p]

\* one pass of script v over the text before, as the text of file_path,
\* gives the text after
Fixes(v, file_path, before, after) ==
    (/\ pc = "rules" /\ Len(texts) >= 2
     /\ variant = v /\ File = file_path /\ texts[1] = before)
    => texts[2] = after

\* C6: the rules turn each intended malformation into its fix and leave the
\* rest of the text alone: final_fix's rules for cache.ts make
\* "if (cleanedSize, 10) {" into "if (cleanedSize >= 10) {" and
\* "const toDelete: string[] = [0];" into "const toDelete: string[] = [];",
\* and final_precise_fix's rules make "length, 0)" into "length > 0)".
TargetedCorrection ==
    /\ Fixes("final_fix", cache_file,
             "if (cleanedSize, 10) {", "if (cleanedSize >= 10) {")
    /\ Fixes("final_fix", cache_file,
             "const toDelete: string[] = [0];",
             "const toDelete: string[] = [];")
    /\ \A f \in Range(problem_files) :
          /\ Fixes("final_precise_fix", f,
                   "if (list.length, 0) {", "if (list.length > 0) {")
          /\ Fixes("final_precise_fix", f, "length, 0)", "length > 0)")

\* one pass of final_fix's rules for cache.ts over "if (cleanedSize, 10) {"
TargetedCorrectionWitness ==
    /\ pc = "rules"
    /\ variant = "final_fix"
    /\ File = cache_file
    /\ texts = <<"if (cleanedSize, 10) {", "if (cleanedSize >= 10) {">>

\* C7: a listed path that is not on disk is reported, is neither read nor
\* written, counts as neither repaired nor failed, and the run goes on to
\* its end.
MissingPathReported ==
    (pc = "done" /\ ~IsGlob)
    => \A p \in Pool(variant) \ exists :
          /\ report[p] = "missing"
          /\ calls[p] = 0 /\ reads[p] = 0 /\ writes[p] = 0
          /\ p \notin faulty

\* C8: the script exits with success exactly when no file had a read or
\* write failure, whatever the verifier did.
ExitStatus ==
    Ended => (exit_status = "success" <=> faulty = {})

\* C9: once the files are processed and the verifier is called, the run
\* comes to an end, even if the verifier never does.
VerifierTimeout ==
    (pc = "waiting") ~> (pc \in {"done", "killed"})

\* C10: no file is handed to its handler more than once in a run; the
\* resolved list holds no path twice, and a run that completes has handled
\* every target exactly once and counted no more repairs than targets.
Deduplication ==
    /\ \A p \in Pool(variant) : calls[p] <= 1
    /\ \A i, j \in DOMAIN files_to_fix :
          files_to_fix[i] = files_to_fix[j] => i = j
    /\ fixed_count <= Cardinality(Targets)
    /\ pc = "done" => \A p \in Targets : calls[p] = 1

\* a completed simple_fix run over a file that two of its patterns match
DeduplicationWitness ==
    /\ variant = "simple_fix"
    /\ pc = "done"
    /\ "src/types/b.d.ts" \in exists
    /\ Len(Extended(simple_patterns, 1, exists)) > Cardinality(exists)
    /\ calls["src/types/b.d.ts"] = 1
    /\ report["src/types/b.d.ts"] = "repaired"

====
